---------------------------- MODULE Spec2Model ----------------------------
(***************************************************************************)
(* parseRanges(str, maxPages) of src/parseRanges.js: a page range          *)
(* specification such as "1-3,5,7-" is turned into the de-duplicated       *)
(* sequence of the 1-based page numbers it names.                          *)
(*                                                                         *)
(* A JavaScript string is a sequence of one-character strings.  A call is  *)
(* a small state machine: entry (coercion, trim, split), one step per      *)
(* segment of the for-of loop, and the final de-duplication.               *)
(***************************************************************************)
EXTENDS Integers, Sequences, FiniteSets, TLC

VARIABLES str, maxPages, pc, parts, k, out, result,
          frames, heap, returned, run

\* one call: its arguments, its position, its locals and what it returned
callVars == <<str, maxPages, pc, parts, k, out, result>>

\* the callers of src/app.js: the frame of each one's current call, the
\* objects the calls allocate, and what the calls have returned so far
callerVars == <<frames, heap, returned>>

vars ==
  <<str, maxPages, pc, parts, k, out, result, frames, heap, returned, run>>

---------------------------------------------------------------------------
(* Bounds of the model *)

\* longest enumerated specification string
MaxLen == 4
\* largest enumerated page count
MaxPages == 3
\* most calls one caller makes
MaxCalls == 2

\* the characters the enumerated strings are made of
Alphabet == {"0", "1", "2", "-", ",", " ", "a"}

---------------------------------------------------------------------------
(* Characters and strings *)

Digits == {"0", "1", "2", "3", "4", "5", "6", "7", "8", "9"}

\* what String.prototype.trim strips and what \s matches
WhiteSpace == {" ", "\t", "\n", "\r"}

DigitVal(c) ==
  CASE c = "0" -> 0 [] c = "1" -> 1 [] c = "2" -> 2 [] c = "3" -> 3
    [] c = "4" -> 4 [] c = "5" -> 5 [] c = "6" -> 6 [] c = "7" -> 7
    [] c = "8" -> 8 [] c = "9" -> 9

Drop(s, n) == SubSeq(s, n + 1, Len(s))

Take(s, n) == SubSeq(s, 1, n)

\* length of the longest prefix of s made of characters of set cs
PrefixLen(s, cs) ==
  CHOOSE n \in 0..Len(s) :
    /\ \A i \in 1..n : s[i] \in cs
    /\ (n = Len(s) \/ s[n + 1] \notin cs)

\* length of the longest suffix of s made of characters of set cs
SuffixLen(s, cs) ==
  CHOOSE n \in 0..Len(s) :
    /\ \A i \in (Len(s) - n + 1)..Len(s) : s[i] \in cs
    /\ (n = Len(s) \/ s[Len(s) - n] \notin cs)

\* String.prototype.trim
trim(s) ==
  LET lead == PrefixLen(s, WhiteSpace)
      rest == Drop(s, lead)
  IN  Take(rest, Len(rest) - SuffixLen(rest, WhiteSpace))

\* the number of characters of s before its first comma
UntilComma(s) ==
  CHOOSE n \in 0..Len(s) :
    /\ \A i \in 1..n : s[i] # ","
    /\ (n = Len(s) \/ s[n + 1] = ",")

\* String.prototype.split(','): the pieces between the commas, empty ones kept
RECURSIVE split(_)
split(s) ==
  LET n == UntilComma(s)
  IN  IF n = Len(s) THEN <<s>>
      ELSE <<Take(s, n)>> \o split(Drop(s, n + 1))

\* value of a run of decimal digits
RECURSIVE DecValue(_)
DecValue(ds) ==
  IF ds = <<>> THEN 0
  ELSE DecValue(Take(ds, Len(ds) - 1)) * 10 + DigitVal(ds[Len(ds)])

---------------------------------------------------------------------------
(* JavaScript values: the str argument, numbers with NaN, match results *)

undefined == [type |-> "undefined", chars |-> <<>>]

null == [type |-> "null", chars |-> <<>>]

JSString(s) == [type |-> "string", chars |-> s]

\* String(str||''): a falsy str (undefined, null, '') becomes the empty string
StringOrEmpty(v) == IF v.type = "string" THEN v.chars ELSE <<>>

NaN == [nan |-> TRUE, n |-> 0]

Num(n) == [nan |-> FALSE, n |-> n]

Number_isNaN(x) == x.nan

\* a stand-in for the magnitude of Infinity: above every other number here
Huge == 2147483647

\* the number value Infinity: it is not NaN, and it is no integer
Infinity == [nan |-> FALSE, n |-> Huge]

\* the largest double is about 1.8 * 10^308: a digit run with more significant
\* digits than this is beyond it and is read as Infinity, one with fewer is
\* read as the integer it denotes (the limit itself lies among the runs of
\* exactly this many digits, which no argument here has)
MaxFiniteDigits == 309

\* a strict reading: NaN unless the whole string is an optionally signed integer
parseIntStrict(s) ==
  LET signed == s # <<>> /\ Head(s) \in {"+", "-"}
      u == IF signed THEN Tail(s) ELSE s
      v == DecValue(u)
  IN  IF u = <<>> \/ PrefixLen(u, Digits) # Len(u) THEN NaN
      ELSE IF signed /\ Head(s) = "-" THEN Num(0 - v) ELSE Num(v)

\* parseInt(s, 10): leading white space, an optional sign, then the longest
\* run of digits; what follows the digits is ignored; NaN without a digit
parseInt(s) ==
  LET t == Drop(s, PrefixLen(s, WhiteSpace))
      signed == t # <<>> /\ Head(t) \in {"+", "-"}
      u == IF signed THEN Tail(t) ELSE t
      d == PrefixLen(u, Digits)
      significant == d - PrefixLen(Take(u, d), {"0"})
      v == IF significant > MaxFiniteDigits THEN Huge
           ELSE DecValue(Take(u, d))
  IN  IF d = 0 THEN NaN
      ELSE IF signed /\ Head(t) = "-" THEN Num(0 - v) ELSE Num(v)

\* the result of String.prototype.match: null, or the captured groups
NoMatch == [isNull |-> TRUE, group |-> <<>>]

Match(gs) == [isNull |-> FALSE, group |-> gs]

\* a laxer pattern, /^(\d+)\s*-\s*(.+)$/: anything may follow the hyphen
closedRangeLax(part) ==
  LET d1 == PrefixLen(part, Digits)
      r1 == Drop(part, d1)
      r2 == Drop(r1, PrefixLen(r1, WhiteSpace))
      r3 == Tail(r2)
      r4 == Drop(r3, PrefixLen(r3, WhiteSpace))
  IN  IF /\ d1 >= 1
         /\ r2 # <<>>
         /\ Head(r2) = "-"
         /\ r4 # <<>>
        THEN Match(<<Take(part, d1), r4>>)
        ELSE NoMatch

\* a pattern with no white space allowed around the hyphen: /^(\d+)-(\d+)$/
closedRangeTight(part) ==
  LET d1 == PrefixLen(part, Digits)
      r2 == Drop(part, d1)
      r4 == Tail(r2)
  IN  IF /\ d1 >= 1
         /\ r2 # <<>>
         /\ Head(r2) = "-"
         /\ r4 # <<>>
         /\ PrefixLen(r4, Digits) = Len(r4)
        THEN Match(<<Take(part, d1), r4>>)
        ELSE NoMatch

\* part.match(/^(\d+)\s*-\s*(\d+)$/)
closedRange(part) ==
  LET d1 == PrefixLen(part, Digits)
      r1 == Drop(part, d1)
      r2 == Drop(r1, PrefixLen(r1, WhiteSpace))
      r3 == Tail(r2)
      r4 == Drop(r3, PrefixLen(r3, WhiteSpace))
  IN  IF /\ d1 >= 1
         /\ r2 # <<>>
         /\ Head(r2) = "-"
         /\ r4 # <<>>
         /\ PrefixLen(r4, Digits) = Len(r4)
        THEN Match(<<Take(part, d1), r4>>)
        ELSE NoMatch

\* an open-ended pattern with no anchor at its end: /^(\d+)\s*-/
openEndRangeNoAnchor(part) ==
  LET d1 == PrefixLen(part, Digits)
      r1 == Drop(part, d1)
      r2 == Drop(r1, PrefixLen(r1, WhiteSpace))
  IN  IF /\ d1 >= 1
         /\ r2 # <<>>
         /\ Head(r2) = "-"
        THEN Match(<<Take(part, d1)>>)
        ELSE NoMatch

\* part.match(/^(\d+)\s*-\s*$/)
openEndRange(part) ==
  LET d1 == PrefixLen(part, Digits)
      r1 == Drop(part, d1)
      r2 == Drop(r1, PrefixLen(r1, WhiteSpace))
      r3 == Tail(r2)
  IN  IF /\ d1 >= 1
         /\ r2 # <<>>
         /\ Head(r2) = "-"
         /\ PrefixLen(r3, WhiteSpace) = Len(r3)
        THEN Match(<<Take(part, d1)>>)
        ELSE NoMatch

\* part.match(/^\s*-\s*(\d+)$/)
openStartRange(part) ==
  LET r1 == Drop(part, PrefixLen(part, WhiteSpace))
      r2 == Tail(r1)
      r3 == Drop(r2, PrefixLen(r2, WhiteSpace))
  IN  IF /\ r1 # <<>>
         /\ Head(r1) = "-"
         /\ r3 # <<>>
         /\ PrefixLen(r3, Digits) = Len(r3)
        THEN Match(<<r3>>)
        ELSE NoMatch

---------------------------------------------------------------------------
(* The body of parseRanges *)

\* parseInt of the group after the one meant: parseInt(m[i+1],10), which for
\* a group the pattern does not have is parseInt(undefined,10), NaN
GroupIntNext(m, i) ==
  [threw |-> m.isNull,
   val   |-> IF m.isNull \/ i + 1 > Len(m.group) THEN NaN
             ELSE parseInt(m.group[i + 1])]

\* parseInt(m[i], 10); reading an index of null throws a TypeError
GroupInt(m, i) ==
  [threw |-> m.isNull,
   val   |-> IF m.isNull THEN NaN ELSE parseInt(m.group[i])]

\* Parts without the .map(x=>x.trim())
PartsNoTrim(s) == SelectSeq(split(s), LAMBDA x : x # <<>>)

\* Parts without the .filter(Boolean)
PartsKeepEmpty(s) ==
  LET pieces == split(s)
  IN  [i \in 1..Len(pieces) |-> trim(pieces[i])]

\* s.split(',').map(x=>x.trim()).filter(Boolean)
Parts(s) ==
  LET pieces == split(s)
      trimmed == [i \in 1..Len(pieces) |-> trim(pieces[i])]
  IN  SelectSeq(trimmed, LAMBDA x : x # <<>>)

\* only the closed-range test (as in the copy of src/app.js)
IsRangeClosedOnly(part) == ~closedRange(part).isNull

\* if(closedRange || openEndRange || openStartRange)
IsRange(part) ==
  \/ ~closedRange(part).isNull
  \/ ~openEndRange(part).isNull
  \/ ~openStartRange(part).isNull

\* RangeBounds with the open-ended branch reading the wrong match object
RangeBoundsWrongMatch(part, max) ==
  LET c == closedRange(part)
      e == openEndRange(part)
      s == openStartRange(part)
  IN  IF ~c.isNull
        THEN [threw |-> GroupInt(c, 1).threw \/ GroupInt(c, 2).threw,
              a |-> GroupInt(c, 1).val, b |-> GroupInt(c, 2).val]
      ELSE IF ~e.isNull
        THEN [threw |-> GroupInt(s, 1).threw,
              a |-> GroupInt(s, 1).val, b |-> Num(max)]
      ELSE IF ~s.isNull
        THEN [threw |-> GroupInt(s, 1).threw,
              a |-> Num(1), b |-> GroupInt(s, 1).val]
      ELSE [threw |-> FALSE, a |-> Num(1), b |-> Num(max)]

\* RangeBounds with the open-start branch assigning a where it should assign b
RangeBoundsStartForEnd(part, max) ==
  LET c == closedRange(part)
      e == openEndRange(part)
      s == openStartRange(part)
  IN  IF ~c.isNull
        THEN [threw |-> GroupInt(c, 1).threw \/ GroupInt(c, 2).threw,
              a |-> GroupInt(c, 1).val, b |-> GroupInt(c, 2).val]
      ELSE IF ~e.isNull
        THEN [threw |-> GroupInt(e, 1).threw,
              a |-> GroupInt(e, 1).val, b |-> Num(max)]
      ELSE IF ~s.isNull
        THEN [threw |-> GroupInt(s, 1).threw,
              a |-> GroupInt(s, 1).val, b |-> Num(max)]
      ELSE [threw |-> FALSE, a |-> Num(1), b |-> Num(max)]

\* let a = 1; let b = maxPages; then the bounds the matching pattern captured
RangeBounds(part, max) ==
  LET c == closedRange(part)
      e == openEndRange(part)
      s == openStartRange(part)
  IN  IF ~c.isNull
        THEN [threw |-> GroupInt(c, 1).threw \/ GroupInt(c, 2).threw,
              a |-> GroupInt(c, 1).val, b |-> GroupInt(c, 2).val]
      ELSE IF ~e.isNull
        THEN [threw |-> GroupInt(e, 1).threw,
              a |-> GroupInt(e, 1).val, b |-> Num(max)]
      ELSE IF ~s.isNull
        THEN [threw |-> GroupInt(s, 1).threw,
              a |-> Num(1), b |-> GroupInt(s, 1).val]
      ELSE [threw |-> FALSE, a |-> Num(1), b |-> Num(max)]

Max(x, y) == IF x >= y THEN x ELSE y

Min(x, y) == IF x <= y THEN x ELSE y

\* a loop that stops one short: for(let i=a;i<b;i++)
PushedExclusive(a, b) ==
  IF a < b THEN [i \in 1..(b - a) |-> a + i - 1] ELSE <<>>

\* for(let i=a;i<=b;i++) out.push(i)
Pushed(a, b) == IF a <= b THEN [i \in 1..(b - a + 1) |-> a + i - 1] ELSE <<>>

\* Expand without the clamp of lines 27-28
ExpandNoClamp(a, b, max) ==
  IF Number_isNaN(a) \/ Number_isNaN(b) THEN <<>>
  ELSE LET lo == IF a.n > b.n THEN b.n ELSE a.n
           hi == IF a.n > b.n THEN a.n ELSE b.n
       IN  Pushed(lo, hi)

\* Expand without the swap of line 26
ExpandNoSwap(a, b, max) ==
  IF Number_isNaN(a) \/ Number_isNaN(b) THEN <<>>
  ELSE Pushed(Max(1, a.n), Min(max, b.n))

\* Expand that drops a range reaching outside 1..max instead of clamping it
ExpandDropOutside(a, b, max) ==
  IF Number_isNaN(a) \/ Number_isNaN(b) THEN <<>>
  ELSE LET lo == IF a.n > b.n THEN b.n ELSE a.n
           hi == IF a.n > b.n THEN a.n ELSE b.n
       IN  IF lo < 1 \/ hi > max THEN <<>> ELSE Pushed(lo, hi)

\* Expand with the clamp of lines 27-28 done before the swap of line 26
ExpandClampFirst(a, b, max) ==
  IF Number_isNaN(a) \/ Number_isNaN(b) THEN <<>>
  ELSE LET ca == Max(1, a.n)
           cb == Min(max, b.n)
       IN  Pushed(Min(ca, cb), Max(ca, cb))

\* Expand that clamps both bounds into 1..max, so no range comes out empty
ExpandClampBoth(a, b, max) ==
  IF Number_isNaN(a) \/ Number_isNaN(b) THEN <<>>
  ELSE LET lo == IF a.n > b.n THEN b.n ELSE a.n
           hi == IF a.n > b.n THEN a.n ELSE b.n
       IN  Pushed(Max(1, Min(max, lo)), Min(max, Max(1, hi)))

\* Expand without the upper clamp of line 28: b is not cut down to max
ExpandNoUpperClamp(a, b, max) ==
  IF Number_isNaN(a) \/ Number_isNaN(b) THEN <<>>
  ELSE LET lo == IF a.n > b.n THEN b.n ELSE a.n
           hi == IF a.n > b.n THEN a.n ELSE b.n
       IN  Pushed(Max(1, lo), hi)

\* the NaN guard, the swap, the clamp and the expansion of a range's bounds
Expand(a, b, max) ==
  IF Number_isNaN(a) \/ Number_isNaN(b) THEN <<>>
  ELSE LET lo == IF a.n > b.n THEN b.n ELSE a.n
           hi == IF a.n > b.n THEN a.n ELSE b.n
       IN  Pushed(Max(1, lo), Min(max, hi))

\* a range branch that takes a range starting beyond max to be empty
RangePartEmptyBeyond(part, max) ==
  LET r == RangeBounds(part, max)
  IN  [threw |-> r.threw,
       pushed |-> IF r.threw \/ (~Number_isNaN(r.a) /\ r.a.n > max)
                    THEN <<>> ELSE Expand(r.a, r.b, max)]

\* the range branch of the loop body: what it appends, or that it threw
RangePart(part, max) ==
  LET r == RangeBounds(part, max)
  IN  [threw |-> r.threw,
       pushed |-> IF r.threw THEN <<>> ELSE Expand(r.a, r.b, max)]

\* a strict single-value branch: a segment that is no number is an error
SinglePartStrict(part, max) ==
  LET n == parseInt(part)
  IN  [threw |-> Number_isNaN(n),
       pushed |-> IF ~Number_isNaN(n) /\ n.n >= 1 /\ n.n <= max
                    THEN <<n.n>> ELSE <<>>]

\* a single-value branch that clamps the value into 1..max, as a range is
SinglePartClamped(part, max) ==
  LET n == parseInt(part)
  IN  [threw |-> FALSE,
       pushed |-> IF ~Number_isNaN(n) /\ max >= 1
                    THEN <<Max(1, Min(max, n.n))>> ELSE <<>>]

\* a single-value branch that counts pages from 0: n>=0
SinglePartFromZero(part, max) ==
  LET n == parseInt(part)
  IN  [threw |-> FALSE,
       pushed |-> IF ~Number_isNaN(n) /\ n.n >= 0 /\ n.n <= max
                    THEN <<n.n>> ELSE <<>>]

\* a single-value branch that takes a value beyond max to mean the last page
SinglePartLastPage(part, max) ==
  LET n == parseInt(part)
  IN  [threw |-> FALSE,
       pushed |-> IF ~Number_isNaN(n) /\ n.n >= 1 /\ max >= 1
                    THEN <<Min(n.n, max)>> ELSE <<>>]

\* the else branch of the loop body: a single value
SinglePart(part, max) ==
  LET n == parseInt(part)
  IN  [threw |-> FALSE,
       pushed |-> IF ~Number_isNaN(n) /\ n.n >= 1 /\ n.n <= max
                    THEN <<n.n>> ELSE <<>>]

\* one iteration of the for-of loop
LoopBody(part, max) ==
  IF IsRange(part) THEN RangePart(part, max) ELSE SinglePart(part, max)

\* Filter with the seen.add(p) left out: nothing is ever seen
FilterForgetful(s, seen) == SelectSeq(s, LAMBDA p : p \notin seen)

\* out.filter(p=> (seen.has(p)?false:(seen.add(p),true)))
RECURSIVE Filter(_, _)
Filter(s, seen) ==
  IF s = <<>> THEN <<>>
  ELSE IF Head(s) \in seen THEN Filter(Tail(s), seen)
  ELSE <<Head(s)>> \o Filter(Tail(s), seen \cup {Head(s)})

\* the values of s in ascending order, each once
RECURSIVE SortedSeq(_)
SortedSeq(S) ==
  IF S = {} THEN <<>>
  ELSE LET m == CHOOSE x \in S : \A y \in S : x <= y
       IN  <<m>> \o SortedSeq(S \ {m})

\* a de-duplication through a sorted set: numeric order, not first occurrence
DedupeSorted(s) == SortedSeq({s[i] : i \in 1..Len(s)})

Dedupe(s) == Filter(s, {})

\* a loop whose working sequence is made anew by every segment
RECURSIVE LoopRestart(_, _, _)
LoopRestart(ps, max, acc) ==
  IF ps = <<>> THEN [threw |-> FALSE, out |-> acc]
  ELSE LET r == LoopBody(Head(ps), max)
       IN  IF r.threw THEN [threw |-> TRUE, out |-> acc]
           ELSE LoopRestart(Tail(ps), max, r.pushed)

\* the working sequence after the segments ps, or that one of them threw
RECURSIVE Loop(_, _, _)
Loop(ps, max, acc) ==
  IF ps = <<>> THEN [threw |-> FALSE, out |-> acc]
  ELSE LET r == LoopBody(Head(ps), max)
       IN  IF r.threw THEN [threw |-> TRUE, out |-> acc]
           ELSE Loop(Tail(ps), max, acc \o r.pushed)

\* parseRanges(str, maxPages) as one function of its arguments
parseRanges(v, max) ==
  LET s == trim(StringOrEmpty(v))
      r == Loop(Parts(s), max, <<>>)
  IN  IF s = <<>> THEN [threw |-> FALSE, value |-> <<>>]
      ELSE IF r.threw THEN [threw |-> TRUE, value |-> <<>>]
      ELSE [threw |-> FALSE, value |-> Dedupe(r.out)]

---------------------------------------------------------------------------
(* The copy of parseRanges in src/app.js: only the closed-range pattern *)

\* the if(m) branch without the swap of a and b
AppRangePartNoSwap(part, max) ==
  LET m == closedRange(part)
  IN  [threw |-> GroupInt(m, 1).threw \/ GroupInt(m, 2).threw,
       pushed |-> IF m.isNull THEN <<>>
                  ELSE ExpandNoSwap(GroupInt(m, 1).val, GroupInt(m, 2).val,
                                    max)]

\* the if(m) branch: both bounds come from the one match m
AppRangePart(part, max) ==
  LET m == closedRange(part)
  IN  [threw |-> GroupInt(m, 1).threw \/ GroupInt(m, 2).threw,
       pushed |-> IF m.isNull THEN <<>>
                  ELSE Expand(GroupInt(m, 1).val, GroupInt(m, 2).val, max)]

\* one iteration of the copy's for-of loop
AppLoopBody(part, max) ==
  IF ~closedRange(part).isNull
    THEN AppRangePart(part, max)
    ELSE SinglePart(part, max)

\* the copy's working sequence after the segments ps
RECURSIVE AppLoop(_, _, _)
AppLoop(ps, max, acc) ==
  IF ps = <<>> THEN [threw |-> FALSE, out |-> acc]
  ELSE LET r == AppLoopBody(Head(ps), max)
       IN  IF r.threw THEN [threw |-> TRUE, out |-> acc]
           ELSE AppLoop(Tail(ps), max, acc \o r.pushed)

\* parseRanges(str, maxPages) of src/app.js as one function of its arguments
parseRangesApp(v, max) ==
  LET s == trim(StringOrEmpty(v))
      r == AppLoop(Parts(s), max, <<>>)
  IN  IF s = <<>> THEN [threw |-> FALSE, value |-> <<>>]
      ELSE IF r.threw THEN [threw |-> TRUE, value |-> <<>>]
      ELSE [threw |-> FALSE, value |-> Dedupe(r.out)]

---------------------------------------------------------------------------
(* One call of parseRanges as a state machine *)

RECURSIVE StringsUpTo(_)
StringsUpTo(n) ==
  IF n = 0 THEN {<<>>}
  ELSE StringsUpTo(n - 1) \cup [1..n -> Alphabet]

\* the calls of src/tests/parseRanges.test.js, and further segments of the
\* shapes the pattern tests tell apart, with characters outside Alphabet
Examples ==
  { <<JSString(<<"1","-","3",",","5",",","7","-","8">>), 10>>,
    <<JSString(<<" ","1",","," ","2"," ",",","2",","," ","3"," ">>), 10>>,
    <<JSString(<<"0",",","1",",","5",",","1","2">>), 5>>,
    <<JSString(<<"3","-","1">>), 5>>,
    <<JSString(<<"7","-">>), 10>>,
    <<JSString(<<"-","3">>), 10>>,
    <<JSString(<<"a",",","1","-","b",",","4">>), 10>>,
    <<JSString(<<"1","-","b">>), 10>>,
    <<JSString(<<"5",",","1","-","3",",","2">>), 10>>,
    <<JSString(<<"3","x">>), 10>>,
    <<JSString(<<"2",".","5">>), 10>>,
    <<JSString(<<"1","-","2","-","3">>), 10>>,
    <<JSString(<<"1"," ","2">>), 10>>,
    <<JSString(<<"-","-","3">>), 10>>,
    <<JSString(<<"+","3">>), 10>>,
    <<JSString(<<"0","-","2">>), 5>>,
    <<JSString(<<"1","2","-">>), 5>>,
    <<JSString(<<"2",",","a",",","1","-","2">>), 10>>,
    <<JSString(<<"0">>), 5>>,
    <<JSString(<<"7","-","9",",","2">>), 5>>,
    <<JSString(<<"0","-","0",",","1">>), 5>>,
    <<JSString(<<"3"," ","-"," ","5">>), 10>>,
    <<JSString(<<"2","-","3",",","5","-",",","-","1",",","4">>), 5>> }

\* the arguments of the calls: every string over Alphabet up to MaxLen and the
\* falsy non-strings, with every page count up to MaxPages; and the examples
Inputs ==
  (({JSString(s) : s \in StringsUpTo(MaxLen)} \cup {undefined, null})
     \X (0..MaxPages))
  \cup Examples

\* the tools of src/app.js that call parseRanges: extract and rotate
Callers == {1, 2}

\* a caller that has made no call yet
IdleFrame ==
  [str |-> undefined, maxPages |-> 0, pc |-> "idle", parts |-> <<>>,
   k |-> 1, result |-> <<>>, made |-> 0]

\* where the objects a call allocates live: one place per caller, and the
\* module's own, 0
Places == Callers \cup {0}

\* no array and no set allocated yet
NoLocals == [out |-> <<>>, seen |-> {}]

\* the extract tool's run() before it is started: the text of the ex-pages
\* field, the page count of the loaded document, which definition the name
\* parseRanges is bound to, and the locals pages, indices and copied
IdleRun ==
  [pc |-> "idle", value |-> <<>>, max |-> 0, uses |-> "parseRanges.js",
   pages |-> <<>>, indices |-> <<>>, copied |-> <<>>, error |-> ""]

Init ==
  /\ \E in \in Inputs : str = in[1] /\ maxPages = in[2]
  /\ pc = "start"
  /\ parts = <<>>
  /\ k = 1
  /\ out = <<>>
  /\ result = <<>>
  /\ frames = [c \in Callers |-> IdleFrame]
  /\ heap = [p \in Places |-> NoLocals]
  /\ returned = {}
  /\ run = IdleRun

\* an early return that takes an empty specification to mean every page
EarlyReturnAllPages ==
  /\ pc = "start"
  /\ trim(StringOrEmpty(str)) = <<>>
  /\ result' = Pushed(1, maxPages)
  /\ pc' = "done"
  /\ UNCHANGED <<str, maxPages, parts, k, out, frames, heap, returned, run>>

\* if(!s) return out
EarlyReturn ==
  /\ pc = "start"
  /\ trim(StringOrEmpty(str)) = <<>>
  /\ result' = out
  /\ pc' = "done"
  /\ UNCHANGED <<str, maxPages, parts, k, out, frames, heap, returned, run>>

\* the segments the for-of loop will visit
Split ==
  /\ pc = "start"
  /\ trim(StringOrEmpty(str)) # <<>>
  /\ parts' = Parts(trim(StringOrEmpty(str)))
  /\ k' = 1
  /\ pc' = "loop"
  /\ UNCHANGED <<str, maxPages, out, result, frames, heap, returned, run>>

\* one iteration on a segment of one of the three range shapes
RangeStep ==
  /\ pc = "loop"
  /\ k <= Len(parts)
  /\ IsRange(parts[k])
  /\ LET r == RangePart(parts[k], maxPages)
     IN  /\ pc' = IF r.threw THEN "threw" ELSE "loop"
         /\ out' = out \o r.pushed
  /\ k' = k + 1
  /\ UNCHANGED <<str, maxPages, parts, result, frames, heap, returned, run>>

\* one iteration on any other segment
SingleStep ==
  /\ pc = "loop"
  /\ k <= Len(parts)
  /\ ~IsRange(parts[k])
  /\ LET r == SinglePart(parts[k], maxPages)
     IN  /\ pc' = IF r.threw THEN "threw" ELSE "loop"
         /\ out' = out \o r.pushed
  /\ k' = k + 1
  /\ UNCHANGED <<str, maxPages, parts, result, frames, heap, returned, run>>

\* the de-duplication and the return
Return ==
  /\ pc = "loop"
  /\ k > Len(parts)
  /\ result' = Dedupe(out)
  /\ pc' = "done"
  /\ UNCHANGED <<str, maxPages, parts, k, out, frames, heap, returned, run>>

Next == EarlyReturn \/ Split \/ RangeStep \/ SingleStep \/ Return

Spec == Init /\ [][Next]_vars

\* a run of digits too long for a finite double
LongRun == [i \in 1..(MaxFiniteDigits + 1) |-> "9"]

\* specifications with such a run as a bound of a range or as a single value
LongExamples ==
  { <<JSString(<<"2", ",", "1", "-">> \o LongRun), 5>>,
    <<JSString(LongRun \o <<"-", "2">>), 5>>,
    <<JSString(LongRun \o <<"-">>), 5>>,
    <<JSString(<<"-">> \o LongRun), 5>>,
    <<JSString(LongRun), 5>> }

\* one call on any of the arguments of Init or on one of these
InitLong ==
  /\ \E in \in Inputs \cup LongExamples : str = in[1] /\ maxPages = in[2]
  /\ pc = "start"
  /\ parts = <<>>
  /\ k = 1
  /\ out = <<>>
  /\ result = <<>>
  /\ frames = [c \in Callers |-> IdleFrame]
  /\ heap = [p \in Places |-> NoLocals]
  /\ returned = {}
  /\ run = IdleRun

SpecLong == InitLong /\ [][Next]_vars

TypeOK ==
  /\ pc \in {"idle", "start", "loop", "done", "threw"}
  /\ maxPages \in Nat
  /\ k \in 1..(Len(parts) + 1)
  /\ \A c \in Callers :
       /\ frames[c].pc \in {"idle", "start", "loop", "done", "threw"}
       /\ frames[c].made \in 0..MaxCalls

---------------------------------------------------------------------------
(* Calls by several callers, repeated and interleaved *)

\* what the callers pass: a few specifications of each shape, with 3 pages
CallInputs ==
  { <<undefined, 3>>,
    <<JSString(<<"2", ",", "1">>), 3>>,
    <<JSString(<<"1", "-">>), 3>>,
    <<JSString(<<"-", "2">>), 3>>,
    <<JSString(<<"3", ",", "a", ",", "3">>), 3>>,
    <<JSString(<<"2", "-", "3", ",", "1">>), 3>> }

\* an array that lives in the module and is shared by every call
OutPlaceModule(c) == 0

\* the place of the array and the set of caller c's call: they are locals
\* of the call (const out, const seen), so each call has its own
OutPlace(c) == c

\* an array made once and kept from call to call
NewOutKept(old) == old

\* const out = []: a new empty array at every call
NewOut(old) == <<>>

\* const seen = new Set(): a new empty set at every de-duplication
NewSeen(old) == {}

\* caller c calls parseRanges(in[1], in[2]); the call creates its array
Call(c) ==
  /\ frames[c].pc \in {"idle", "done"}
  /\ frames[c].made < MaxCalls
  /\ \E in \in CallInputs :
       frames' = [frames EXCEPT ![c] =
                    [str |-> in[1], maxPages |-> in[2], pc |-> "start",
                     parts |-> <<>>, k |-> 1, result |-> <<>>,
                     made |-> @.made + 1]]
  /\ heap' = [heap EXCEPT ![OutPlace(c)].out = NewOut(@)]
  /\ UNCHANGED <<callVars, returned, run>>

\* if(!s) return out, in caller c's call
CallerEarlyReturn(c) ==
  /\ frames[c].pc = "start"
  /\ trim(StringOrEmpty(frames[c].str)) = <<>>
  /\ LET r == heap[OutPlace(c)].out
     IN  /\ frames' = [frames EXCEPT ![c].result = r, ![c].pc = "done"]
         /\ returned' = returned
                          \cup {<<frames[c].str, frames[c].maxPages, r>>}
  /\ UNCHANGED <<callVars, heap, run>>

\* the segments the loop of caller c's call will visit
CallerSplit(c) ==
  /\ frames[c].pc = "start"
  /\ trim(StringOrEmpty(frames[c].str)) # <<>>
  /\ frames' = [frames EXCEPT
                  ![c].parts = Parts(trim(StringOrEmpty(frames[c].str))),
                  ![c].k = 1,
                  ![c].pc = "loop"]
  /\ UNCHANGED <<callVars, heap, returned, run>>

\* one iteration of the loop of caller c's call: it pushes onto its array
CallerStep(c) ==
  /\ frames[c].pc = "loop"
  /\ frames[c].k <= Len(frames[c].parts)
  /\ LET r == LoopBody(frames[c].parts[frames[c].k], frames[c].maxPages)
     IN  /\ frames' = [frames EXCEPT
                         ![c].pc = IF r.threw THEN "threw" ELSE "loop",
                         ![c].k = @ + 1]
         /\ heap' = [heap EXCEPT ![OutPlace(c)].out = @ \o r.pushed]
  /\ UNCHANGED <<callVars, returned, run>>

\* the de-duplication through the call's set, and the return
CallerReturn(c) ==
  /\ frames[c].pc = "loop"
  /\ frames[c].k > Len(frames[c].parts)
  /\ LET seen == NewSeen(heap[OutPlace(c)].seen)
         r == Filter(heap[OutPlace(c)].out, seen)
     IN  /\ frames' = [frames EXCEPT ![c].result = r, ![c].pc = "done"]
         /\ heap' = [heap EXCEPT ![OutPlace(c)].seen =
                       seen \cup {r[i] : i \in 1..Len(r)}]
         /\ returned' = returned
                          \cup {<<frames[c].str, frames[c].maxPages, r>>}
  /\ UNCHANGED <<callVars, run>>

\* no call of the single-call machine is in progress
InitCallers ==
  /\ str = undefined
  /\ maxPages = 0
  /\ pc = "idle"
  /\ parts = <<>>
  /\ k = 1
  /\ out = <<>>
  /\ result = <<>>
  /\ frames = [c \in Callers |-> IdleFrame]
  /\ heap = [p \in Places |-> NoLocals]
  /\ returned = {}
  /\ run = IdleRun

NextCallers ==
  \E c \in Callers :
    \/ Call(c)
    \/ CallerEarlyReturn(c)
    \/ CallerSplit(c)
    \/ CallerStep(c)
    \/ CallerReturn(c)

SpecCallers == InitCallers /\ [][NextCallers]_vars

---------------------------------------------------------------------------
(* The extract tool of src/app.js: run() parses the field and copies pages *)

\* the definitions the name parseRanges can be bound to when run() calls it:
\* src/app.js declares its own copy and src/parseRanges.js sets
\* window.parseRanges, so the script loaded last decides
Bindings == {"parseRanges.js", "app.js"}

\* parseRanges(el('ex-pages').value, max) under the binding in effect
BoundParseRanges(uses, v, max) ==
  IF uses = "app.js" THEN parseRangesApp(v, max) ELSE parseRanges(v, max)

\* what the Run button allows: validate() passes only a field that is not
\* blank; the field's value is always a string
RunInput(in) == in[1].type = "string" /\ trim(in[1].chars) # <<>>

\* indices that keep the 1-based page numbers
IndicesOneBased(pages) == pages

\* const indices = pages.map(p=>p-1)
Indices(pages) == [i \in 1..Len(pages) |-> pages[i] - 1]

\* parseRanges(el('ex-pages').value, max): run() enters the call
ExtractCall ==
  /\ run.pc = "call"
  /\ pc = "idle"
  /\ str' = JSString(run.value)
  /\ maxPages' = run.max
  /\ pc' = "start"
  /\ parts' = <<>>
  /\ k' = 1
  /\ out' = <<>>
  /\ result' = <<>>
  /\ run' = [run EXCEPT !.pc = "parsing"]
  /\ UNCHANGED callerVars

\* one iteration of the loop when the call runs the copy of src/app.js
AppStep ==
  /\ pc = "loop"
  /\ k <= Len(parts)
  /\ LET r == AppLoopBody(parts[k], maxPages)
     IN  /\ pc' = IF r.threw THEN "threw" ELSE "loop"
         /\ out' = out \o r.pushed
  /\ k' = k + 1
  /\ UNCHANGED <<str, maxPages, parts, result, frames, heap, returned, run>>

\* const pages = ...: the call has returned, or has thrown
ExtractReturned ==
  /\ run.pc = "parsing"
  /\ pc \in {"done", "threw"}
  /\ run' = IF pc = "threw"
              THEN [run EXCEPT !.pc = "failed", !.error = "TypeError"]
              ELSE [run EXCEPT !.pc = "check", !.pages = result]
  /\ UNCHANGED <<callVars, callerVars>>

\* if(!pages.length) throw new Error('No valid pages selected.')
ExtractThrow ==
  /\ run.pc = "check"
  /\ Len(run.pages) = 0
  /\ run' = [run EXCEPT !.pc = "failed",
                        !.error = "No valid pages selected."]
  /\ UNCHANGED <<callVars, callerVars>>

\* out.copyPages(src, indices) and the addPage of each copy: the pages of
\* src are its indices 0..max-1, and an index outside them makes copyPages fail
ExtractCopy ==
  /\ run.pc = "check"
  /\ Len(run.pages) # 0
  /\ LET ix == Indices(run.pages)
     IN  run' = IF \A i \in 1..Len(ix) : ix[i] \in 0..(run.max - 1)
                  THEN [run EXCEPT !.pc = "copied", !.indices = ix,
                                   !.copied = ix]
                  ELSE [run EXCEPT !.pc = "failed", !.indices = ix,
                                   !.error = "copyPages"]
  /\ UNCHANGED <<callVars, callerVars>>

\* run() is started on a field validate() has passed
InitExtract ==
  /\ str = undefined
  /\ maxPages = 0
  /\ pc = "idle"
  /\ parts = <<>>
  /\ k = 1
  /\ out = <<>>
  /\ result = <<>>
  /\ frames = [c \in Callers |-> IdleFrame]
  /\ heap = [p \in Places |-> NoLocals]
  /\ returned = {}
  /\ \E in \in Inputs, b \in Bindings :
       /\ RunInput(in)
       /\ run = [IdleRun EXCEPT !.pc = "call", !.value = in[1].chars,
                                !.max = in[2], !.uses = b]

\* the steps of run() and of the call it makes, under the binding in effect;
\* the field is not blank, so the call never takes the early return
NextExtract ==
  \/ ExtractCall
  \/ Split
  \/ (run.uses = "parseRanges.js" /\ (RangeStep \/ SingleStep))
  \/ (run.uses = "app.js" /\ AppStep)
  \/ Return
  \/ ExtractReturned
  \/ ExtractThrow
  \/ ExtractCopy

SpecExtract == InitExtract /\ [][NextExtract]_vars

---------------------------------------------------------------------------
(* Properties *)

Done == pc = "done"

NoDup(s) == \A i, j \in 1..Len(s) : i # j => s[i] # s[j]

\* s with every occurrence of a value after its first removed
FirstOccurrences(s) ==
  LET ix == SelectSeq([i \in 1..Len(s) |-> i],
                      LAMBDA i : \A j \in 1..(i - 1) : s[j] # s[i])
  IN  [m \in 1..Len(ix) |-> s[ix[m]]]

\* the explicit bounds of a range segment lie partly outside 1..max
Overshoots(part, max) ==
  /\ IsRange(part)
  /\ LET r == RangeBounds(part, max)
     IN  /\ ~r.a.nan /\ ~r.b.nan
         /\ \/ Max(r.a.n, r.b.n) > max
            \/ Min(r.a.n, r.b.n) < 1

\* C1: every value v of the returned sequence satisfies 1 <= v <= maxPages, so
\* the caller's index v - 1 is a valid zero-based page index in 0..maxPages-1.
C1_Bounds ==
  Done =>
    \A i \in 1..Len(result) :
      /\ 1 <= result[i] /\ result[i] <= maxPages
      /\ result[i] - 1 \in 0..(maxPages - 1)

\* a call has returned pages although one of its ranges reached outside 1..maxPages
C1_Witness ==
  /\ Done
  /\ result # <<>>
  /\ \E i \in 1..Len(parts) : Overshoots(parts[i], maxPages)

\* C2: the returned sequence holds no integer twice, and a first-occurrence
\* de-duplication pass over it gives it back unchanged.
C2_NoDuplicates ==
  Done => NoDup(result) /\ FirstOccurrences(result) = result

\* a call has returned after dropping a repeated value of the working sequence
C2_Witness == Done /\ Len(result) >= 2 /\ Len(out) > Len(result)

\* the segments' own contributions, left to right
RECURSIVE Contributions(_, _)
Contributions(ps, max) ==
  IF ps = <<>> THEN <<>>
  ELSE LoopBody(Head(ps), max).pushed \o Contributions(Tail(ps), max)

Ascending(s) == \A i \in 1..(Len(s) - 1) : s[i + 1] = s[i] + 1

\* C3: the result is in first-occurrence order: it is the working sequence
\* (the segments expanded left to right, each range ascending) with every
\* occurrence of a value after its first removed; '5,1-3,2' with 10 pages
\* gives 5,1,2,3.
C3_FirstOccurrenceOrder ==
  Done =>
    /\ result = FirstOccurrences(out)
    /\ out = Contributions(parts, maxPages)
    /\ \A i \in 1..Len(parts) : Ascending(LoopBody(parts[i], maxPages).pushed)
    /\ (str = JSString(<<"5", ",", "1", "-", "3", ",", "2">>) /\ maxPages = 10
          => result = <<5, 1, 2, 3>>)

\* a returned result that is not in numeric order and lost a repeated value
C3_Witness ==
  /\ Done
  /\ Len(out) > Len(result)
  /\ \E i, j \in 1..Len(result) : i < j /\ result[i] > result[j]

\* C4: a call never ends in an error outcome: no step of it throws, and what
\* it returns is a (possibly empty) sequence of integers.
C4_NeverThrows ==
  /\ pc # "threw"
  /\ (pc = "start" => ~parseRanges(str, maxPages).threw)
  /\ (Done => \A i \in 1..Len(result) : result[i] \in Int)

\* a call has returned from a specification with a malformed segment
C4_Witness ==
  /\ Done
  /\ \E i \in 1..Len(parts) :
       ~IsRange(parts[i]) /\ Number_isNaN(parseInt(parts[i]))
  /\ \E i \in 1..Len(parts) : IsRange(parts[i])

\* the call's specification is one segment
OneSegment == Len(parts) = 1

\* digits, a hyphen, and then something that is not a run of digits: 'a-X'
HalfRange(part) ==
  LET d1 == PrefixLen(part, Digits)
      r1 == Drop(part, d1)
      r2 == Drop(r1, PrefixLen(r1, WhiteSpace))
      r4 == Drop(Tail(r2), PrefixLen(Tail(r2), WhiteSpace))
  IN  /\ d1 >= 1
      /\ r2 # <<>>
      /\ Head(r2) = "-"
      /\ r4 # <<>>
      /\ PrefixLen(r4, Digits) < Len(r4)

\* the number a segment starts with
LeadingNumber(part) == DecValue(Take(part, PrefixLen(part, Digits)))

\* <<n>> when n is a page, else nothing
PageOrNothing(n, max) == IF 1 <= n /\ n <= max THEN <<n>> ELSE <<>>

\* C5 as stated: a segment that looks like a range but has a non-numeric
\* second half ('1-b') contributes no page: parseRanges('1-b', N) is empty.
C5_Original ==
  Done /\ OneSegment /\ HalfRange(parts[1]) => result = <<>>

\* C5 amended: such a segment matches none of the three range patterns and is
\* handled as a single value: parseInt reads its leading number n and ignores
\* the rest, so it contributes n when 1 <= n <= maxPages ('1-b' gives 1).
C5_Amended ==
  Done /\ OneSegment /\ HalfRange(parts[1]) =>
    /\ ~IsRange(parts[1])
    /\ result = PageOrNothing(LeadingNumber(parts[1]), maxPages)
    /\ (str = JSString(<<"1", "-", "b">>) => result = <<1>>)

\* a call on one such segment has returned its leading number
C5_Witness ==
  Done /\ OneSegment /\ HalfRange(parts[1]) /\ result = <<1>>

\* a segment the loop body can make nothing of: no range, and no number
Unreadable(part) == ~IsRange(part) /\ Number_isNaN(parseInt(part))

RECURSIVE Join(_)
Join(ps) ==
  IF ps = <<>> THEN <<>>
  ELSE IF Len(ps) = 1 THEN ps[1]
  ELSE ps[1] \o <<",">> \o Join(Tail(ps))

\* C6: parseRanges('a,1-b,4', 10) is 1,4; and an invalid segment neither
\* aborts the call nor changes what the segments before and after it
\* contribute: the result is that of the specification without it.
C6_InvalidTolerated ==
  /\ (k > 1 /\ Unreadable(parts[k - 1]) => pc \in {"loop", "done"})
  /\ (Done =>
        result = parseRanges(JSString(Join(SelectSeq(parts,
                     LAMBDA x : ~Unreadable(x)))), maxPages).value)
  /\ (Done /\ str = JSString(<<"a", ",", "1", "-", "b", ",", "4">>)
        /\ maxPages = 10 => result = <<1, 4>>)

\* a call has returned pages of segments before and after an invalid one
C6_Witness ==
  /\ Done
  /\ \E i, j, l \in 1..Len(parts) :
       /\ i < j /\ j < l
       /\ Unreadable(parts[j])
       /\ LoopBody(parts[i], maxPages).pushed # <<>>
       /\ LoopBody(parts[l], maxPages).pushed # <<>>
       /\ Len(result) >= 2

AllDigits(part) == part # <<>> /\ PrefixLen(part, Digits) = Len(part)

\* C7 as stated: a segment that matches no range shape and is not a bare
\* integer literal contributes nothing.
C7_Original ==
  Done /\ OneSegment /\ ~IsRange(parts[1]) /\ ~AllDigits(parts[1])
    => result = <<>>

\* what parseInt makes of a trimmed segment: after an optional '+', its
\* leading run of digits; nothing for a segment that starts otherwise
SingleValue(part, max) ==
  LET u == IF Head(part) = "+" THEN Tail(part) ELSE part
  IN  IF PrefixLen(u, Digits) = 0 THEN <<>>
      ELSE PageOrNothing(LeadingNumber(u), max)

\* C7 amended: a segment that matches no range shape is a single value
\* whenever it starts (after an optional '+') with a digit: its leading run of
\* digits is the value n, whatever follows is ignored ('3x' is 3, '2.5' is 2,
\* '1-2-3' is 1, '1 2' is 1), and it contributes n when 1 <= n <= maxPages;
\* a segment that starts otherwise ('a', '--3') contributes nothing.
C7_Amended ==
  Done /\ OneSegment /\ ~IsRange(parts[1]) =>
    /\ result = SingleValue(parts[1], maxPages)
    /\ (str = JSString(<<"3", "x">>) => result = <<3>>)
    /\ (str = JSString(<<"-", "-", "3">>) => result = <<>>)

\* a call on one segment with trailing text has returned its leading number
C7_Witness ==
  /\ Done /\ OneSegment
  /\ ~IsRange(parts[1]) /\ ~AllDigits(parts[1])
  /\ result # <<>>

\* C8: a closed range gives the same result written in either direction,
\* 'a-b' or 'b-a', and is expanded in ascending order.
C8_RangeSymmetry ==
  Done /\ OneSegment /\ ~closedRange(parts[1]).isNull =>
    LET g == closedRange(parts[1]).group
    IN  /\ result = parseRanges(JSString(g[2] \o <<"-">> \o g[1]),
                                maxPages).value
        /\ Ascending(result)

\* a call on a reversed range has returned at least two pages
C8_Witness ==
  /\ Done /\ OneSegment /\ ~closedRange(parts[1]).isNull
  /\ LET g == closedRange(parts[1]).group
     IN  DecValue(g[1]) > DecValue(g[2])
  /\ Len(result) >= 2

DigitChar(d) ==
  CASE d = 0 -> "0" [] d = 1 -> "1" [] d = 2 -> "2" [] d = 3 -> "3"
    [] d = 4 -> "4" [] d = 5 -> "5" [] d = 6 -> "6" [] d = 7 -> "7"
    [] d = 8 -> "8" [] d = 9 -> "9"

\* the decimal digits of n
RECURSIVE ToDigits(_)
ToDigits(n) ==
  IF n < 10 THEN <<DigitChar(n)>>
  ELSE ToDigits(n \div 10) \o <<DigitChar(n % 10)>>

\* C9: for 1 <= k <= maxPages, 'k-' gives what 'k-N' gives with N = maxPages:
\* the pages k, k+1, ..., N.
C9_OpenEnded ==
  Done /\ OneSegment /\ ~openEndRange(parts[1]).isNull =>
    LET g == openEndRange(parts[1]).group
        kv == DecValue(g[1])
    IN  1 <= kv /\ kv <= maxPages =>
          /\ result = [i \in 1..(maxPages - kv + 1) |-> kv + i - 1]
          /\ result = parseRanges(JSString(g[1] \o <<"-">>
                                    \o ToDigits(maxPages)), maxPages).value

\* a call on 'k-' with k below maxPages has returned
C9_Witness ==
  /\ Done /\ OneSegment /\ ~openEndRange(parts[1]).isNull
  /\ LET kv == DecValue(openEndRange(parts[1]).group[1])
     IN  1 <= kv /\ kv < maxPages
  /\ Len(result) >= 2

\* C10: for 1 <= k <= maxPages, '-k' gives what '1-k' gives: the pages
\* 1, 2, ..., k; the leading hyphen is never read as a sign.
C10_OpenStart ==
  Done /\ OneSegment /\ ~openStartRange(parts[1]).isNull =>
    LET g == openStartRange(parts[1]).group
        kv == DecValue(g[1])
    IN  1 <= kv /\ kv <= maxPages =>
          /\ result = [i \in 1..kv |-> i]
          /\ result = parseRanges(JSString(<<"1", "-">> \o g[1]),
                                  maxPages).value

\* a call on '-k' with k >= 2 has returned
C10_Witness ==
  /\ Done /\ OneSegment /\ ~openStartRange(parts[1]).isNull
  /\ LET kv == DecValue(openStartRange(parts[1]).group[1])
     IN  2 <= kv /\ kv <= maxPages
  /\ Len(result) >= 2

\* the bounds a range segment names, the defaults 1 and max filled in
NamedBounds(part, max) ==
  IF ~closedRange(part).isNull
    THEN <<DecValue(closedRange(part).group[1]),
           DecValue(closedRange(part).group[2])>>
  ELSE IF ~openEndRange(part).isNull
    THEN <<DecValue(openEndRange(part).group[1]), max>>
  ELSE <<1, DecValue(openStartRange(part).group[1])>>

\* the integers from..to in ascending order
Interval(from, to) == [i \in 1..(to - from + 1) |-> from + i - 1]

\* C11: a range that lies partly outside 1..maxPages is clamped, not dropped:
\* with its bounds ordered lo <= hi it contributes exactly the integers
\* max(1, lo) .. min(maxPages, hi); '0-2' with 5 pages gives 1,2.
C11_RangeClamped ==
  Done /\ OneSegment /\ IsRange(parts[1]) =>
    LET ab == NamedBounds(parts[1], maxPages)
        lo == Min(ab[1], ab[2])
        hi == Max(ab[1], ab[2])
    IN  /\ result = Interval(Max(1, lo), Min(maxPages, hi))
        /\ (str = JSString(<<"0", "-", "2">>) /\ maxPages = 5
              => result = <<1, 2>>)

\* a call on one range that reaches outside 1..maxPages has returned pages
C11_Witness ==
  /\ Done /\ OneSegment
  /\ Overshoots(parts[1], maxPages)
  /\ Len(result) >= 2

\* the values of s that are pages, in order
Pages(s, max) == SelectSeq(s, LAMBDA n : 1 <= n /\ n <= max)

\* C12: a single value n is appended only if 1 <= n <= maxPages; a value
\* outside is dropped, never clamped to 1 or maxPages: '0,1,5,12' with 5 pages
\* gives 1,5 and '0' gives nothing.
C12_SingleDropped ==
  Done /\ (\A i \in 1..Len(parts) : AllDigits(parts[i])) =>
    /\ out = Pages([i \in 1..Len(parts) |-> DecValue(parts[i])], maxPages)
    /\ result = FirstOccurrences(out)
    /\ (str = JSString(<<"0", ",", "1", ",", "5", ",", "1", "2">>)
          /\ maxPages = 5 => result = <<1, 5>>)
    /\ (str = JSString(<<"0">>) /\ maxPages = 5 => result = <<>>)

\* a call on single values has returned, one value kept and one dropped
C12_Witness ==
  /\ Done /\ Len(parts) >= 2
  /\ \A i \in 1..Len(parts) : AllDigits(parts[i])
  /\ result # <<>>
  /\ \E i \in 1..Len(parts) : DecValue(parts[i]) > maxPages
  /\ \E i \in 1..Len(parts) : DecValue(parts[i]) = 0

\* the specification is missing, empty or white space only
Blank(v) ==
  v.type = "string" => \A i \in 1..Len(v.chars) : v.chars[i] \in WhiteSpace

\* C13: for every maxPages >= 0 the result is empty when the specification is
\* the empty string, white space only, or a missing or falsy value.
C13_Emptiness ==
  Done /\ Blank(str) => result = <<>> /\ out = <<>> /\ parts = <<>>

\* a call with pages to give has returned on a specification of white space
C13_Witness ==
  /\ Done /\ maxPages >= 1
  /\ str.type = "string" /\ Len(str.chars) >= 2 /\ Blank(str)

\* C14: with maxPages = 0 every specification gives the empty sequence,
\* whatever the shapes of its segments.
C14_ZeroPages == Done /\ maxPages = 0 => result = <<>>

\* a call with maxPages = 0 has returned on an open-ended and another segment
C14_Witness ==
  /\ Done /\ maxPages = 0
  /\ Len(parts) >= 2
  /\ \E i \in 1..Len(parts) :
       ~openEndRange(parts[i]).isNull
         /\ DecValue(openEndRange(parts[i]).group[1]) >= 1
  /\ \E i \in 1..Len(parts) : AllDigits(parts[i])

\* s with every c replaced by the string r
RECURSIVE Replace(_, _, _)
Replace(s, c, r) ==
  IF s = <<>> THEN <<>>
  ELSE (IF Head(s) = c THEN r ELSE <<Head(s)>>) \o Replace(Tail(s), c, r)

\* s with a space added at both ends and on both sides of every comma
Pad(s) == <<" ">> \o Replace(s, ",", <<" ", ",", " ">>) \o <<" ">>

\* s[i] is white space with nothing but white space between it and the
\* start of s or the comma before it
LeftEdge(s, i) ==
  /\ s[i] \in WhiteSpace
  /\ \A j \in 1..i :
       (\A m \in j..i : s[m] # ",") => s[j] \in WhiteSpace

\* s[i] is white space with nothing but white space between it and the
\* end of s or the comma after it
RightEdge(s, i) ==
  /\ s[i] \in WhiteSpace
  /\ \A j \in i..Len(s) :
       (\A m \in i..j : s[m] # ",") => s[j] \in WhiteSpace

\* s without the white space at its ends and around its commas
Strip(s) ==
  LET ix == SelectSeq([i \in 1..Len(s) |-> i],
                      LAMBDA i : ~(LeftEdge(s, i) \/ RightEdge(s, i)))
  IN  [m \in 1..Len(ix) |-> s[ix[m]]]

\* C17: white space before and after the whole specification and around each
\* comma-separated segment is insignificant: the result is that of the
\* specification with all of it removed, and that of the specification with
\* more of it added; ' 1, 2 ,2, 3 ' gives what '1,2,2,3' gives.
C17_WhitespaceInsignificant ==
  Done /\ str.type = "string" =>
    /\ result = parseRanges(JSString(Strip(str.chars)), maxPages).value
    /\ result = parseRanges(JSString(Pad(str.chars)), maxPages).value
    /\ (str = JSString(<<" ", "1", ",", " ", "2", " ", ",", "2", ",", " ",
                         "3", " ">>)
          => /\ Strip(str.chars) = <<"1", ",", "2", ",", "2", ",", "3">>
             /\ result = <<1, 2, 3>>)

\* a call has returned pages of a range segment with white space around it
C17_Witness ==
  /\ Done /\ str.type = "string"
  /\ Strip(str.chars) # str.chars
  /\ \E i \in 1..Len(parts) : IsRange(parts[i])
  /\ Len(result) >= 2

\* s with a comma added at both ends and every comma doubled
ExtraCommas(s) == <<",">> \o Replace(s, ",", <<",", ",">>) \o <<",">>

\* s with every comma made two commas with a space between them
SpacedCommas(s) == Replace(s, ",", <<",", " ", ",">>)

\* the number of comma-separated pieces of s that are not white space only
RECURSIVE NonBlankPieces(_, _)
NonBlankPieces(s, seen) ==
  IF s = <<>> THEN (IF seen THEN 1 ELSE 0)
  ELSE IF Head(s) = ","
    THEN (IF seen THEN 1 ELSE 0) + NonBlankPieces(Tail(s), FALSE)
  ELSE NonBlankPieces(Tail(s), seen \/ Head(s) \notin WhiteSpace)

\* C18: segments that are empty after trimming are discarded: the loop visits
\* only the non-empty segments, and extra commas (leading, trailing, doubled,
\* or with only white space between them) neither change the result nor
\* produce a page.
C18_EmptySegmentsDiscarded ==
  /\ (pc \in {"loop", "done"} /\ str.type = "string" =>
        /\ \A i \in 1..Len(parts) : parts[i] # <<>>
        /\ Len(parts) = NonBlankPieces(str.chars, FALSE))
  /\ (Done /\ str.type = "string" =>
        /\ result = parseRanges(JSString(ExtraCommas(str.chars)),
                                maxPages).value
        /\ result = parseRanges(JSString(SpacedCommas(str.chars)),
                                maxPages).value
        /\ (parts = <<>> => result = <<>>))

\* a call has returned pages of a specification with an empty segment
C18_Witness ==
  /\ Done /\ str.type = "string"
  /\ Len(split(str.chars)) > Len(parts)
  /\ Len(parts) >= 2
  /\ Len(result) >= 2

\* C19: for 1 <= a <= b <= maxPages the one segment 'a-b' gives exactly
\* a, a+1, ..., b, ascending, each once; '1-3,5,7-8' with 10 pages gives
\* 1,2,3,5,7,8.
C19_ClosedRange ==
  /\ (Done /\ OneSegment /\ ~closedRange(parts[1]).isNull =>
        LET a == DecValue(closedRange(parts[1]).group[1])
            b == DecValue(closedRange(parts[1]).group[2])
        IN  1 <= a /\ a <= b /\ b <= maxPages =>
              /\ Len(result) = b - a + 1
              /\ \A i \in 1..Len(result) : result[i] = a + i - 1)
  /\ (Done /\ str = JSString(<<"1", "-", "3", ",", "5", ",", "7", "-", "8">>)
        /\ maxPages = 10 => result = <<1, 2, 3, 5, 7, 8>>)

\* a call on one closed range a-b with 1 <= a < b <= maxPages has returned
C19_Witness ==
  /\ Done /\ OneSegment /\ ~closedRange(parts[1]).isNull
  /\ LET a == DecValue(closedRange(parts[1]).group[1])
         b == DecValue(closedRange(parts[1]).group[2])
     IN  1 <= a /\ a < b /\ b <= maxPages
  /\ Len(result) >= 2

\* a closed range with both bounds above max, or both 0
Outside(part, max) ==
  /\ ~closedRange(part).isNull
  /\ LET a == DecValue(closedRange(part).group[1])
         b == DecValue(closedRange(part).group[2])
     IN  (a > max /\ b > max) \/ (a = 0 /\ b = 0)

\* s without its i-th element
Without(s, i) == SubSeq(s, 1, i - 1) \o SubSeq(s, i + 1, Len(s))

\* C20: a closed range whose two bounds lie outside 1..maxPages on the same
\* side (both above maxPages, or both 0) contributes no page, and the
\* segments after it are still processed: the result is that of the
\* specification without it.
C20_OutsideRangeEmpty ==
  /\ (pc \in {"loop", "done"} /\ k = 2 /\ Outside(parts[1], maxPages)
        => out = <<>>)
  /\ (Done =>
        \A i \in 1..Len(parts) :
          Outside(parts[i], maxPages) =>
            result = parseRanges(JSString(Join(Without(parts, i))),
                                 maxPages).value)

\* a call has returned pages of the segment after a range outside 1..maxPages
C20_Witness ==
  /\ Done /\ maxPages >= 1
  /\ Len(parts) >= 2
  /\ Outside(parts[1], maxPages)
  /\ result # <<>>

\* caller c's call has returned
Returned(c) == frames[c].pc = "done"

\* C15: over any sequence of calls, two calls with the same specification
\* and page count return the same sequence, whatever calls were made before;
\* a call starts with nothing left of an earlier one.
C15_ReferentiallyTransparent ==
  /\ \A h1, h2 \in returned :
       h1[1] = h2[1] /\ h1[2] = h2[2] => h1[3] = h2[3]
  /\ \A c \in Callers :
       frames[c].pc = "start" => heap[OutPlace(c)].out = <<>>

\* a caller's second call has returned what another call with the same
\* arguments returned, after a call with other arguments
C15_Witness ==
  \E c, d \in Callers :
    /\ c # d
    /\ Returned(c) /\ frames[c].made = 2
    /\ Returned(d)
    /\ frames[c].str = frames[d].str
    /\ frames[c].result # <<>>
    /\ \E h \in returned : h[1] # frames[c].str /\ h[3] # <<>>

\* C16: calls made by several callers in any interleaving each return what
\* the same call returns when it runs alone.
C16_InterleavedCalls ==
  \A c \in Callers :
    /\ frames[c].pc # "threw"
    /\ Returned(c) =>
         frames[c].result
           = parseRanges(frames[c].str, frames[c].maxPages).value

\* caller c is in the middle of the loop of a call and has pushed pages
MidLoop(c) ==
  /\ frames[c].pc = "loop"
  /\ frames[c].k > 1
  /\ frames[c].k <= Len(frames[c].parts)
  /\ heap[OutPlace(c)].out # <<>>

\* two calls with different arguments are both in the middle of their loops
C16_Witness ==
  /\ MidLoop(1) /\ MidLoop(2)
  /\ frames[1].str # frames[2].str

---------------------------------------------------------------------------
(* The shapes of a segment, and relations between calls *)

\* part with its white space removed
Unspaced(part) == SelectSeq(part, LAMBDA c : c \notin WhiteSpace)

\* digits, a hyphen and digits, with white space on one or both sides of the
\* hyphen and nowhere else: 'a - b', 'a- b', 'a -b'
SpacedRange(part) ==
  \E h \in 2..(Len(part) - 1) :
    /\ part[h] = "-"
    /\ \E i \in 1..(h - 1), j \in (h + 1)..Len(part) :
         /\ \A p \in 1..i : part[p] \in Digits
         /\ \A p \in (i + 1)..(h - 1) : part[p] \in WhiteSpace
         /\ \A p \in (h + 1)..(j - 1) : part[p] \in WhiteSpace
         /\ \A p \in j..Len(part) : part[p] \in Digits
         /\ (i + 1 < h \/ h + 1 < j)

\* C21: white space around the hyphen of a closed range is optional and
\* insignificant: 'a - b', 'a- b' and 'a -b' give what 'a-b' gives.
C21_HyphenWhitespace ==
  Done /\ OneSegment /\ SpacedRange(parts[1]) =>
    /\ result = parseRanges(JSString(Unspaced(parts[1])), maxPages).value
    /\ (str = JSString(<<"3", " ", "-", " ", "5">>) /\ maxPages = 10
          => result = <<3, 4, 5>>)

\* a call on a closed range with white space at its hyphen has returned pages
C21_Witness ==
  /\ Done /\ OneSegment /\ SpacedRange(parts[1])
  /\ Len(result) >= 2

\* the range patterns that match part
Shapes(part) ==
  {n \in {"closed", "openEnd", "openStart"} :
     \/ n = "closed" /\ ~closedRange(part).isNull
     \/ n = "openEnd" /\ ~openEndRange(part).isNull
     \/ n = "openStart" /\ ~openStartRange(part).isNull}

\* the orders in which the three pattern tests can be chained
Orders ==
  {o \in [1..3 -> {"closed", "openEnd", "openStart"}] :
     \A i, j \in 1..3 : i # j => o[i] # o[j]}

\* the bounds a and b of a range segment when the tests are chained in order o
RECURSIVE BoundsInOrder(_, _, _)
BoundsInOrder(part, max, o) ==
  IF o = <<>> THEN <<Num(1), Num(max)>>
  ELSE IF Head(o) = "closed" /\ ~closedRange(part).isNull
    THEN <<parseInt(closedRange(part).group[1]),
           parseInt(closedRange(part).group[2])>>
  ELSE IF Head(o) = "openEnd" /\ ~openEndRange(part).isNull
    THEN <<parseInt(openEndRange(part).group[1]), Num(max)>>
  ELSE IF Head(o) = "openStart" /\ ~openStartRange(part).isNull
    THEN <<Num(1), parseInt(openStartRange(part).group[1])>>
  ELSE BoundsInOrder(part, max, Tail(o))

\* C22: the segment the loop has just handled matched at most one of the
\* three range patterns; it went through the range branch exactly when it
\* matched one, and through the single-value branch otherwise, never both; and
\* chaining the pattern tests in any other order gives the same bounds.
C22_OneShape ==
  pc \in {"loop", "done"} /\ k > 1 =>
    LET part == parts[k - 1]
        m == Shapes(part)
        r == RangeBounds(part, maxPages)
    IN  /\ part # <<>> /\ trim(part) = part
        /\ Cardinality(m) <= 1
        /\ (m # {} <=> IsRange(part))
        /\ (m = {} => LoopBody(part, maxPages) = SinglePart(part, maxPages))
        /\ (m # {} =>
              /\ LoopBody(part, maxPages) = RangePart(part, maxPages)
              /\ \A o \in Orders :
                   BoundsInOrder(part, maxPages, o) = <<r.a, r.b>>)

\* a call has handled segments of all four shapes and returned their pages
C22_Witness ==
  /\ Done
  /\ \A n \in {"closed", "openEnd", "openStart"} :
       \E i \in 1..Len(parts) : Shapes(parts[i]) = {n}
  /\ \E i \in 1..Len(parts) :
       Shapes(parts[i]) = {} /\ SinglePart(parts[i], maxPages).pushed # <<>>
  /\ Len(result) >= 4

\* run() of the extract tool has ended, by an error or with its copies made
Ended == run.pc \in {"failed", "copied"}

\* C23: the extract tool reports 'No valid pages selected.' exactly when
\* parseRanges returns an empty sequence, and then copies no page; otherwise
\* it copies the pages at the indices p - 1, in the order parseRanges
\* returned them.
C23_ExtractCaller ==
  Ended =>
    LET r == BoundParseRanges(run.uses, JSString(run.value), run.max).value
    IN  /\ run.pages = r
        /\ (run.error = "No valid pages selected." <=> r = <<>>)
        /\ (r = <<>> => run.pc = "failed" /\ run.copied = <<>>)
        /\ (r # <<>> =>
              /\ run.pc = "copied" /\ run.error = ""
              /\ Len(run.copied) = Len(r)
              /\ \A i \in 1..Len(r) : run.copied[i] = r[i] - 1)

\* run() has reported the error for a field that is not blank
C23_Witness ==
  /\ run.pc = "failed"
  /\ run.error = "No valid pages selected."
  /\ run.uses = "parseRanges.js"
  /\ run.value # <<>>

\* the working sequence holds at most maxPages values for each segment the
\* loop has handled
WithinBudget ==
  pc \in {"loop", "done"} =>
    /\ Len(out) <= (k - 1) * maxPages
    /\ Len(out) <= Len(parts) * maxPages

\* one step of the loop appends at most maxPages values
StepWithinBudget == Len(out') <= Len(out) + maxPages

\* a bound on the steps a call still has to take: the split, one step for
\* each segment not yet handled, and the return
StepsLeft ==
  CASE pc = "start" -> Len(StringOrEmpty(str)) + 2
    [] pc = "loop" -> Len(parts) - k + 2
    [] OTHER -> 0

\* C24: every call terminates: a call that has not returned is at its entry or
\* in its loop, never stopped by an error, and each of its steps lowers the
\* natural number StepsLeft, which is 0 only once it has returned; each
\* segment appends at most maxPages values to the working sequence (the
\* expansion runs over the clamped interval only), so the working sequence
\* never holds more than (number of segments) x maxPages values.
C24_Terminates ==
  /\ [](pc \in {"start", "loop", "done"})
  /\ [](StepsLeft \in Nat /\ (StepsLeft = 0 <=> pc = "done"))
  /\ [][StepsLeft' < StepsLeft]_vars
  /\ []WithinBudget
  /\ [][StepWithinBudget]_vars

\* a call has returned after a range segment that appended maxPages values
C24_Witness ==
  /\ Done /\ Len(parts) >= 2 /\ maxPages >= 2
  /\ \E i \in 1..Len(parts) :
       /\ IsRange(parts[i])
       /\ Len(RangePart(parts[i], maxPages).pushed) = maxPages

\* the positions of the commas of s
Commas(s) == {i \in 1..Len(s) : s[i] = ","}

\* C25: segments are processed independently: a specification s1 + ',' + s2
\* gives the first-occurrence de-duplication of what s1 gives followed by
\* what s2 gives, for every way of cutting the specification at a comma.
C25_SegmentsIndependent ==
  Done /\ str.type = "string" =>
    \A i \in Commas(str.chars) :
      LET r1 == parseRanges(JSString(Take(str.chars, i - 1)), maxPages).value
          r2 == parseRanges(JSString(Drop(str.chars, i)), maxPages).value
      IN  result = FirstOccurrences(r1 \o r2)

\* a call has returned on s1 + ',' + s2 where both halves give pages and
\* share one
C25_Witness ==
  /\ Done /\ str.type = "string"
  /\ \E i \in Commas(str.chars) :
       LET r1 == parseRanges(JSString(Take(str.chars, i - 1)), maxPages).value
           r2 == parseRanges(JSString(Drop(str.chars, i)), maxPages).value
       IN  r1 # <<>> /\ r2 # <<>> /\ Len(result) < Len(r1) + Len(r2)

\* digits and then a hyphen: 'k-'
DigitsHyphen(part) ==
  /\ Len(part) >= 2
  /\ part[Len(part)] = "-"
  /\ AllDigits(Take(part, Len(part) - 1))

\* C26: an open-ended range whose start lies beyond the upper bound is not
\* empty: for k > maxPages >= 1, 'k-' gives exactly the page maxPages (the
\* defaulted end and the start are swapped before the clamp).
C26_OpenEndedBeyond ==
  Done /\ OneSegment /\ DigitsHyphen(parts[1]) =>
    LET kv == DecValue(Take(parts[1], Len(parts[1]) - 1))
    IN  /\ (kv > maxPages /\ maxPages >= 1 => result = <<maxPages>>)
        /\ (str = JSString(<<"1", "2", "-">>) /\ maxPages = 5
              => result = <<5>>)

\* a call on 'k-' with k beyond maxPages has returned the last page
C26_Witness ==
  /\ Done /\ OneSegment /\ DigitsHyphen(parts[1])
  /\ DecValue(Take(parts[1], Len(parts[1]) - 1)) > maxPages
  /\ maxPages >= 2
  /\ result = <<maxPages>>

\* C27: with maxPages >= 1 the open-start segment '-0' gives the page 1 (the
\* default start 1 and the end 0 are swapped, then clamped), while the single
\* value '0' and the closed range '0-0' give nothing.
C27_ZeroBounds ==
  Done /\ OneSegment /\ maxPages >= 1 =>
    /\ (parts[1] = <<"-", "0">> => result = <<1>>)
    /\ (parts[1] = <<"0">> => result = <<>>)
    /\ (parts[1] = <<"0", "-", "0">> => result = <<>>)

\* a call on '-0' with several pages has returned the page 1
C27_Witness ==
  /\ Done /\ str = JSString(<<"-", "0">>) /\ maxPages >= 2
  /\ result = <<1>>

\* the segment is an open-ended range, 'k-'
OpenEnded(part) == ~openEndRange(part).isNull

\* the values of s that are at most n, in order
UpTo(s, n) == SelectSeq(s, LAMBDA v : v <= n)

\* C28: lowering the upper bound only removes the pages above it: for a
\* specification with no open-ended segment and every N <= maxPages, the
\* result for N is the result for maxPages without the values greater than
\* N, in the same order.
C28_LowerBoundMonotone ==
  Done /\ (\A i \in 1..Len(parts) : ~OpenEnded(parts[i])) =>
    \A n \in 0..maxPages :
      parseRanges(str, n).value = UpTo(result, n)

\* a call with ranges and no open-ended segment has returned pages of which
\* a lower bound removes some and keeps some
C28_Witness ==
  /\ Done /\ Len(parts) >= 2
  /\ \A i \in 1..Len(parts) : ~OpenEnded(parts[i])
  /\ \E i \in 1..Len(parts) : IsRange(parts[i])
  /\ \E n \in 1..(maxPages - 1) :
       UpTo(result, n) # <<>> /\ UpTo(result, n) # result

\* the segment is an open-start range, '-k'
OpenStart(part) == ~openStartRange(part).isNull

\* C29: the copy of parseRanges in src/app.js returns what parseRanges of
\* src/parseRanges.js returns whenever no segment matches the open-ended or
\* the open-start pattern: the two treat a segment differently only if it has
\* one of those two shapes.
C29_CopyAgrees ==
  Done =>
    /\ \A i \in 1..Len(parts) :
         AppLoopBody(parts[i], maxPages) # LoopBody(parts[i], maxPages)
           => OpenEnded(parts[i]) \/ OpenStart(parts[i])
    /\ ((\A i \in 1..Len(parts) :
           ~OpenEnded(parts[i]) /\ ~OpenStart(parts[i]))
          => /\ ~parseRangesApp(str, maxPages).threw
             /\ parseRangesApp(str, maxPages).value = result)

\* a call with a closed range, a single value and no open range has
\* returned pages, and the copy returns the same
C29_Witness ==
  /\ Done /\ Len(parts) >= 2
  /\ \A i \in 1..Len(parts) : ~OpenEnded(parts[i]) /\ ~OpenStart(parts[i])
  /\ \E i \in 1..Len(parts) : ~closedRange(parts[i]).isNull
  /\ \E i \in 1..Len(parts) : ~IsRange(parts[i])
  /\ Len(result) >= 3
  /\ parseRangesApp(str, maxPages).value = result

\* x is an integer: a number that is neither NaN nor infinite
IsInteger(x) == ~Number_isNaN(x) /\ x.n # Huge /\ x.n # 0 - Huge

\* the loop has just handled a segment of one of the three range shapes
RangeHandled == pc \in {"loop", "done"} /\ k > 1 /\ IsRange(parts[k - 1])

\* the digit runs a range segment's pattern captured
Captured(part) ==
  IF ~closedRange(part).isNull THEN closedRange(part).group
  ELSE IF ~openEndRange(part).isNull THEN openEndRange(part).group
  ELSE openStartRange(part).group

\* C30 as stated: whenever a segment matches one of the three range patterns
\* (and maxPages is an integer) both bounds a and b are integers, so the
\* guard for an unparsable bound never skips the segment.
C30_Original ==
  RangeHandled =>
    LET r == RangeBounds(parts[k - 1], maxPages)
    IN  IsInteger(r.a) /\ IsInteger(r.b)

\* C30 amended: whenever a segment matches one of the three range patterns
\* neither bound a nor b is NaN, so the guard for an unparsable bound never
\* skips the segment; a bound is an integer unless its digit run denotes a
\* number beyond the largest double (a run of 309 digits or more), which is
\* read as Infinity and which the swap and the clamp treat as a bound above
\* maxPages.
C30_Amended ==
  RangeHandled =>
    LET part == parts[k - 1]
        r == RangeBounds(part, maxPages)
        long == \E i \in 1..Len(Captured(part)) :
                  Len(Captured(part)[i]) >= MaxFiniteDigits
    IN  /\ ~r.threw
        /\ ~Number_isNaN(r.a) /\ ~Number_isNaN(r.b)
        /\ (~long => IsInteger(r.a) /\ IsInteger(r.b))
        /\ (r.a = Infinity \/ r.b = Infinity =>
              /\ long
              /\ RangePart(part, maxPages).pushed
                   = Interval(Max(1, Min(r.a.n, r.b.n)), maxPages))

\* a call has handled a range one of whose bounds is Infinity, and has
\* returned its pages up to maxPages
C30_Witness ==
  /\ Done /\ RangeHandled
  /\ RangeBounds(parts[k - 1], maxPages).b = Infinity
  /\ Len(parts) = 2
  /\ result = <<2, 1, 3, 4, 5>>

====
